---------------------------- MODULE Spec2Model ----------------------------
(***************************************************************************)
(* The message journal of yggdrasil (package messagejournal): a sqlite     *)
(* store of worker messages, written by AddEntry and read by GetEntries    *)
(* through a filter.  The repository holds several revisions of the        *)
(* package, each with its own specification:                               *)
(*                                                                         *)
(*   Spec         one table `journal`; session scope is a comparison of    *)
(*                `sent` with the handle's initializedAt                   *)
(*                (src/unnamed/part_002, lines 1-270)                      *)
(*   SpecDelete   tables `runtime` and `persistent` made by a migration;   *)
(*                New runs DELETE FROM runtime                             *)
(*                (src/internal/messagejournal/messagejournal.go, 1-263)   *)
(*   SpecDrop     tables `runtime` and `persistent`; New runs DROP TABLE   *)
(*                and CREATE TABLE (src/unnamed/part_001)                  *)
(*                                                                         *)
(* Timestamps are instants counted in half seconds.  They reach the        *)
(* database and the query as text, and sqlite compares the text, so the    *)
(* model formats them as sequences of character codes and compares those.  *)
(* Entries carry a `sent` in UTC, as the entries of the tests do           *)
(* (src/unnamed/part_000, line 17).  Filter values are plain identifiers   *)
(* without quote characters.                                               *)
(***************************************************************************)
EXTENDS Integers, Sequences, FiniteSets, TLC

(* ------------------------------ bounds --------------------------------- *)

MaxEntries == 2     \* rows a table may hold
MaxTime == 2        \* last instant of the clock, in half seconds
MaxHandles == 2     \* journal handles New may hand out
MaxTruncate == 5    \* largest TruncateLength of a filter

Times == 0..MaxTime
MessageIDs == {"m1", "m2"}
Workers == {"w1"}

(* ------------------------- text of timestamps -------------------------- *)

\* seconds as two digits, then ".5" when the instant has a fraction
\* (the layouts ".999999999" drop trailing zeros and a zero fraction)
Seconds(t) ==
    <<48 + ((t \div 2) \div 10), 48 + ((t \div 2) % 10)>>
        \o (IF t % 2 = 1 THEN <<46, 53>> ELSE <<>>)

\* go-sqlite3 binds a time.Time as "2006-01-02 15:04:05.999999999-07:00"
SQLiteTimestamp(t) == Seconds(t) \o <<43, 48, 48, 58, 48, 48>>

\* time.Time.String(): "2006-01-02 15:04:05.999999999 -0700 MST"
TimeString(t) == Seconds(t) \o <<32, 43, 48, 48, 48, 48, 32, 85, 84, 67>>

\* what rows.Scan gives back for a stored DATETIME text
ScanTime(text) == CHOOSE t \in Times : SQLiteTimestamp(t) = text

\* the TIMESTAMP a user passes to --since / --until: "YYYY-MM-DD HH:MM:SS"
UserTimestamp(t) == <<48 + ((t \div 2) \div 10), 48 + ((t \div 2) % 10)>>

\* sqlite's BINARY collation: memcmp, then the shorter text first
TextLess(a, b) ==
    \E i \in 1..(Len(a) + 1) :
        /\ \A k \in 1..(i - 1) : k <= Len(b) /\ a[k] = b[k]
        /\ \/ i = Len(a) + 1 /\ Len(b) >= i
           \/ i <= Len(a) /\ i <= Len(b) /\ a[i] < b[i]

TextLE(a, b) == a = b \/ TextLess(a, b)

(* ------------------------------- state --------------------------------- *)

VARIABLES
    tables,     \* the sqlite file: table name -> rows in insertion order
    journals,   \* the *MessageJournal values New has returned, in order
    ret,        \* the last call, its receiver and what it returned
    callers,    \* the goroutines that call the journal: where each is in
                \* its call, and the rows its calls have added and read
    listen      \* yggctl listen: its --worker flag, the signals waiting in
                \* its channel and the lines it has printed

vars == <<tables, journals, ret, callers, listen>>

Range(s) == {s[i] : i \in 1..Len(s)}

Handles == 1..Len(journals)

\* the storage with table `name` holding `rows` (created when missing)
WithTable(db, name, rows) ==
    [n \in DOMAIN db \cup {name} |-> IF n = name THEN rows ELSE db[n]]

WithoutTable(db, name) == [n \in DOMAIN db \ {name} |-> db[n]]

(* ----------------------- text of the payloads -------------------------- *)

\* texts are Go strings, sequences of bytes: "hi", "hello world" and a
\* text of two characters of two bytes each, U+00E9 U+00E9
Hi == <<104, 105>>
HelloWorld == <<104, 101, 108, 108, 111, 32, 119, 111, 114, 108, 100>>
TwoWide == <<195, 169, 195, 169>>
Digit == <<55>>

EventMessages == {Hi, HelloWorld, TwoWide}

\* a JSON value: a string, or a number
String(text) == [string |-> text]
Number(n) == [number |-> n]
IsString(value) == "string" \in DOMAIN value

\* the payload {"message": "hello world", "code": 7}
HelloWorldCode7 == [message |-> String(HelloWorld), code |-> Number(7)]

\* the event data of the entries: a JSON object, with and without the key
\* "message", with a sibling that is a string or a number
EventDatas ==
    {[message |-> String(text)] : text \in EventMessages}
        \cup {[code |-> String(Digit)],
              [message |-> String(HelloWorld), code |-> String(Digit)],
              HelloWorldCode7}

\* yggdrasil.WorkerMessage, the fields the journal stores and filters by
WorkerMessage ==
    [MessageID : MessageIDs, Sent : Times, WorkerName : Workers,
     EventMessage : EventMessages, EventData : EventDatas]

\* encoding/json writes a string as UTF-8: a byte that does not begin a
\* well-formed sequence is written as U+FFFD
RECURSIVE ValidUTF8(_)
ValidUTF8(text) ==
    IF text = <<>> THEN <<>>
    ELSE IF text[1] < 128
    THEN <<text[1]>> \o ValidUTF8(Tail(text))
    ELSE IF /\ text[1] \in 194..223 /\ Len(text) >= 2
            /\ text[2] \in 128..191
    THEN SubSeq(text, 1, 2) \o ValidUTF8(SubSeq(text, 3, Len(text)))
    ELSE IF /\ text[1] \in 225..239 /\ Len(text) >= 3
            /\ text[2] \in 128..191 /\ text[3] \in 128..191
    THEN SubSeq(text, 1, 3) \o ValidUTF8(SubSeq(text, 4, Len(text)))
    ELSE <<239, 191, 189>> \o ValidUTF8(Tail(text))

\* json.Marshal of an object, the JSON text given by the object it encodes
Marshal(eventData) ==
    [k \in DOMAIN eventData |->
        IF IsString(eventData[k])
        THEN String(ValidUTF8(eventData[k].string)) ELSE eventData[k]]

\* json.Unmarshal into a map[string]string fails on a value that is not a
\* string
UnmarshalFails(workerEventData) ==
    \E k \in DOMAIN workerEventData : ~IsString(workerEventData[k])

\* the marker "..."
Marker == <<46, 46, 46>>

\* fmt.Sprintf("%+v...", text[:messageMaxSize])
Truncated(text, messageMaxSize) ==
    SubSeq(text, 1, messageMaxSize) \o Marker

\* a truncation that does not compare the length of the text with the
\* bound: a shorter text keeps its bytes and gets the marker
TruncateWithoutLength(eventData, TruncateLength) ==
    IF "message" \in DOMAIN eventData /\ TruncateLength > 0
    THEN [eventData EXCEPT
            !.message =
                String(Truncated(eventData.message.string,
                                 IF Len(eventData.message.string)
                                       >= TruncateLength
                                 THEN TruncateLength
                                 ELSE Len(eventData.message.string)))]
    ELSE eventData

\* the truncation of the one-table revisions: of the value of "message",
\* when the bound is positive and the text has that many bytes
TruncateEventData(eventData, TruncateLength) ==
    IF /\ "message" \in DOMAIN eventData
       /\ Len(eventData.message.string) >= TruncateLength
       /\ TruncateLength > 0
    THEN [eventData EXCEPT
            !.message = String(Truncated(eventData.message.string,
                                         TruncateLength))]
    ELSE eventData

\* the truncation of the two-table revisions: the bound is not compared
\* with zero
TruncateMessage(workerEventMessage, TruncateLength) ==
    IF Len(workerEventMessage) >= TruncateLength
    THEN Truncated(workerEventMessage, TruncateLength)
    ELSE workerEventMessage

FilterTimes == {UserTimestamp(t) : t \in {u \in Times : u % 2 = 0 /\ u > 0}}

Filter ==
    [Persistent : BOOLEAN,
     TruncateLength : 0..MaxTruncate,
     MessageID : {""} \cup MessageIDs,
     Worker : {""} \cup Workers,
     Since : {<<>>} \cup FilterTimes,
     Until : {<<>>} \cup FilterTimes]

\* the filter that sets no field
Unfiltered(persistent) ==
    [Persistent |-> persistent, TruncateLength |-> 0,
     MessageID |-> "", Worker |-> "",
     Since |-> <<>>, Until |-> <<>>]

\* the filters the callers pass: one field set, or both time bounds, and
\* no truncation
Filters ==
    {f \in Filter :
        /\ f.TruncateLength = 0
        /\  \/ Cardinality({k \in {"MessageID", "Worker"} : f[k] # ""}
                       \cup {k \in {"Since", "Until"} : f[k] # <<>>}) <= 1
             \/ (f.MessageID = "" /\ f.Worker = "")}

\* the nil *MessageJournal New returns with an error
Nil == <<>>

\* the kinds of handle a call has opened and not closed when it returns
\* with err. No revision calls Close on a statement it prepared; the cursor
\* is closed by rows.Close or by the rows.Next that returns false, which
\* the returns from inside the loop over the rows do not reach
Unreleased(op, err) ==
    CASE op = "GetEntries" ->
            (IF err \in {"build", "prepare", "prepare: syntax error"}
             THEN {} ELSE {"statement"})
            \cup (IF err \in {"scan", "unmarshal", "marshal",
                              "unmarshal: not a string"}
                  THEN {"cursor"} ELSE {})
      [] op = "AddEntry" ->
            IF err \in {"prepare", "prepareRuntime"}
            THEN {} ELSE {"statement"}
      [] OTHER -> {}

\* a call: its receiver j (for New, the journal it returned), the error and
\* the argument it was given, the entries it returned, what it left open
Return(op, j, err, arg, entries) ==
    [op |-> op, j |-> j, err |-> err, arg |-> arg, entries |-> entries,
     open |-> Unreleased(op, err)]

\* the entries the workers send in the model: two instants and two message
\* ids, one pair of entries with the same instant, all with one payload
Messages ==
    {m \in WorkerMessage :
        /\ m.Sent \in {0, MaxTime}
        /\ m.MessageID = "m1" \/ m.Sent = MaxTime
        /\ m.EventMessage = Hi
        /\ m.EventData = [message |-> String(Hi)]}

\* the goroutines that call one journal
Callers == {"c1", "c2"}

\* a caller that is in no call: the ids of the rows its AddEntry calls
\* have added, and of its last GetEntries the ids that were added when it
\* was called and the ids of the rows it read
Idle(added, want, read) ==
    [pc |-> "idle", j |-> Nil, arg |-> "", err |-> "", id |-> 0,
     rows |-> <<>>, added |-> added, want |-> want, read |-> read]

\* a fresh storage location, no handle yet, no call running
Init ==
    /\ tables = <<>>
    /\ journals = <<>>
    /\ ret = Return("none", Nil, "", "", <<>>)
    /\ callers = [c \in Callers |-> Idle({}, {}, <<>>)]
    /\ listen = [pc |-> "none", worker |-> "", signals |-> <<>>,
                 printed |-> <<>>]

\* time.Now() never runs backwards: New reads an instant not before the
\* one the previous New read
ClockReadings ==
    {t \in Times : \A h \in Handles : journals[h].initializedAt <= t}

(* --------------------- the one-table revision -------------------------- *)

\* a migration that creates the table anew on every open
RecreateJournal(db) == WithTable(db, "journal", <<>>)

\* a migration that creates the table with a row in it
JournalWithRow(db) ==
    IF "journal" \in DOMAIN db THEN db
    ELSE WithTable(db, "journal",
             <<[id |-> 1, message_id |-> "m1", sent |-> SQLiteTimestamp(0),
                worker_name |-> "w1",
                worker_data |-> [message |-> String(Hi)]]>>)

\* migrations/000001_messagejournal.up.sql: CREATE TABLE IF NOT EXISTS journal
migrateMessageJournalDB(db) ==
    IF "journal" \in DOMAIN db THEN db ELSE WithTable(db, "journal", <<>>)

\* id INTEGER NOT NULL PRIMARY KEY: the rowid, one more than the largest
LastInsertId(rows) ==
    IF rows = <<>> THEN 1
    ELSE 1 + (CHOOSE m \in {r.id : r \in Range(rows)} :
                 \A r \in Range(rows) : r.id <= m)

\* the values AddEntry binds to its INSERT: the one-table revisions store
\* the event data as JSON text in worker_data, the two-table revisions the
\* event message in worker_message
Values(db, name, entry) ==
    IF name = "journal"
    THEN [id |-> LastInsertId(db[name]),
          message_id |-> entry.MessageID,
          sent |-> SQLiteTimestamp(entry.Sent),
          worker_name |-> entry.WorkerName,
          worker_data |-> Marshal(entry.EventData)]
    ELSE [id |-> LastInsertId(db[name]),
          message_id |-> entry.MessageID,
          sent |-> SQLiteTimestamp(entry.Sent),
          worker_name |-> entry.WorkerName,
          worker_message |-> entry.EventMessage]

\* an insert that takes the place of the newest row of the table
InsertOverNewest(db, name, entry) ==
    WithTable(db, name,
        SubSeq(db[name], 1, Len(db[name]) - 1)
            \o <<Values(db, name, entry)>>)

\* INSERT INTO table (message_id, sent, worker_name, ...) values (?,?,?,...)
Insert(db, name, entry) ==
    WithTable(db, name, Append(db[name], Values(db, name, entry)))

NewSteps == {"", "open", "migrate", "ping"}

New(t, fail) ==
    /\ Len(journals) < MaxHandles
    /\ tables' = IF fail \in {"", "ping"}
                 THEN migrateMessageJournalDB(tables) ELSE tables
    /\ journals' = IF fail = ""
                   THEN Append(journals, [initializedAt |-> t])
                   ELSE journals
    /\ ret' = Return("New", IF fail = "" THEN [initializedAt |-> t] ELSE Nil,
                     fail, "", <<>>)
    /\ UNCHANGED <<callers, listen>>

AddEntrySteps == {"", "prepare", "marshal", "exec", "lastInsertId"}

AddEntry(j, entry, fail) ==
    /\ Len(tables["journal"]) < MaxEntries
    /\ tables' = IF fail \in {"", "lastInsertId"}
                 THEN Insert(tables, "journal", entry) ELSE tables
    /\ ret' = Return("AddEntry", j, fail, entry, <<>>)
    /\ UNCHANGED <<journals, callers, listen>>

\* the text of a value as sqlite's tokenizer cuts it: a quote character
\* is a token of its own, `OR` and `=` are words; a value of letters and
\* digits is one word
Lex(text) ==
    CASE text = "x' OR 'a'='a" ->
            <<"x", "'", "OR", "'", "a", "'", "=", "'", "a">>
      [] text = "m1'" -> <<"m1", "'">>
      [] OTHER -> <<text>>

\* the template's  WHERE column='{{.Value}}' : the value goes into the text
\* between two quote characters, as it is
WhereClause(column, text) == <<column, "=", "'">> \o Lex(text) \o <<"'">>

\* sqlite reads a string literal from the token after a quote to the next
\* quote that is not doubled; the result is <<literal, tokens left>>, or
\* <<>> when the text ends inside the literal
RECURSIVE ReadLiteral(_, _)
ReadLiteral(tokens, literal) ==
    IF tokens = <<>> THEN <<>>
    ELSE IF Head(tokens) # "'"
    THEN ReadLiteral(Tail(tokens), Append(literal, Head(tokens)))
    ELSE IF Len(tokens) >= 2 /\ tokens[2] = "'"
    THEN ReadLiteral(Tail(Tail(tokens)), Append(literal, "'"))
    ELSE <<literal, Tail(tokens)>>

\* the tokens as sqlite's parser sees them: words and string literals; a
\* text that ends inside a literal gives an item of kind "unterminated"
RECURSIVE ReadSQL(_)
ReadSQL(tokens) ==
    IF tokens = <<>> THEN <<>>
    ELSE IF Head(tokens) = "'"
    THEN LET read == ReadLiteral(Tail(tokens), <<>>)
         IN  IF read = <<>>
             THEN <<[kind |-> "unterminated", text |-> <<>>]>>
             ELSE <<[kind |-> "literal", text |-> read[1]]>>
                     \o ReadSQL(read[2])
    ELSE <<[kind |-> "word", text |-> <<Head(tokens)>>]>>
            \o ReadSQL(Tail(tokens))

Columns == {"message_id", "worker_name"}

IsOperand(item) ==
    \/ item.kind = "literal"
    \/ item.kind = "word" /\ item.text[1] \in Columns

\* the WHERE expressions of the model:  operand = operand, any number of
\* them joined by OR; any other text is a syntax error
RECURSIVE IsExpression(_)
IsExpression(items) ==
    /\ Len(items) >= 3
    /\ IsOperand(items[1])
    /\ items[2] = [kind |-> "word", text |-> <<"=">>]
    /\ IsOperand(items[3])
    /\ \/ Len(items) = 3
       \/ /\ Len(items) > 4
          /\ items[4] = [kind |-> "word", text |-> <<"OR">>]
          /\ IsExpression(SubSeq(items, 5, Len(items)))

\* the value of an operand on a row, as text
Operand(item, r) ==
    IF item.kind = "literal" THEN item.text ELSE Lex(r[item.text[1]])

\* the value of an expression on a row
RECURSIVE Evaluate(_, _)
Evaluate(items, r) ==
    \/ Operand(items[1], r) = Operand(items[3], r)
    \/ Len(items) > 4 /\ Evaluate(SubSeq(items, 5, Len(items)), r)

\* SELECT * FROM table WHERE clause, for a clause sqlite accepts
Where(Table, clause) ==
    LET items == ReadSQL(clause) IN {r \in Table : Evaluate(items, r)}

\* the compiled text has a clause that sqlite rejects
SyntaxError(filter) ==
    \/ filter.MessageID # ""
          /\ ~IsExpression(ReadSQL(WhereClause("message_id", filter.MessageID)))
    \/ filter.Worker # ""
          /\ ~IsExpression(ReadSQL(WhereClause("worker_name", filter.Worker)))

\* the query with the message_id clause left out of the template
QueryWithoutMessageID(db, j, filter) ==
    LET Table == Range(db["journal"])
    IN  Table
        \cap (IF filter.Worker # ""
              THEN Where(Table, WhereClause("worker_name", filter.Worker))
              ELSE Table)
        \cap (IF filter.Since # <<>>
              THEN {r \in Table : TextLE(filter.Since, r.sent)} ELSE Table)
        \cap (IF filter.Until # <<>>
              THEN {r \in Table : TextLE(r.sent, filter.Until)} ELSE Table)
        \cap (IF ~filter.Persistent
              THEN {r \in Table : TextLE(TimeString(j.initializedAt), r.sent)}
              ELSE Table)

\* the query with the initializedAt clause left out of the template
QueryWithoutInitializedAt(db, j, filter) ==
    LET Table == Range(db["journal"])
    IN  Table
        \cap (IF filter.MessageID # ""
              THEN Where(Table, WhereClause("message_id", filter.MessageID))
              ELSE Table)
        \cap (IF filter.Worker # ""
              THEN Where(Table, WhereClause("worker_name", filter.Worker))
              ELSE Table)
        \cap (IF filter.Since # <<>>
              THEN {r \in Table : TextLE(filter.Since, r.sent)} ELSE Table)
        \cap (IF filter.Until # <<>>
              THEN {r \in Table : TextLE(r.sent, filter.Until)} ELSE Table)

\* the rows the query of the template selects: SELECT * FROM journal,
\* INTERSECTed with one SELECT ... WHERE per filter field that is set
buildDynamicGetEntriesQuery(db, j, filter) ==
    LET Table == Range(db["journal"])
    IN  Table
        \cap (IF filter.MessageID # ""
              THEN Where(Table, WhereClause("message_id", filter.MessageID))
              ELSE Table)
        \cap (IF filter.Worker # ""
              THEN Where(Table, WhereClause("worker_name", filter.Worker))
              ELSE Table)
        \cap (IF filter.Since # <<>>
              THEN {r \in Table : TextLE(filter.Since, r.sent)} ELSE Table)
        \cap (IF filter.Until # <<>>
              THEN {r \in Table : TextLE(r.sent, filter.Until)} ELSE Table)
        \cap (IF ~filter.Persistent
              THEN {r \in Table : TextLE(TimeString(j.initializedAt), r.sent)}
              ELSE Table)

\* the query without its ORDER BY clause: the rows in any order
Unordered(selected) ==
    {s \in [1..Cardinality(selected) -> selected] :
        \A i, k \in DOMAIN s : i # k => s[i] # s[k]}

\* ORDER BY sent: every order of the selected rows that ascends in `sent`;
\* sqlite leaves the order of rows with equal `sent` undefined
OrderBySent(selected) ==
    {s \in [1..Cardinality(selected) -> selected] :
        /\ \A i, k \in DOMAIN s : i # k => s[i] # s[k]
        /\ \A i, k \in DOMAIN s : i < k => TextLE(s[i].sent, s[k].sent)}

\* newMessage: the map[string]string of one scanned row, its payload
\* truncated as the revision of the row's table truncates it
NewMessage(r, filter) ==
    IF "worker_data" \in DOMAIN r
    THEN [message_id |-> r.message_id,
          sent |-> TimeString(ScanTime(r.sent)),
          worker_name |-> r.worker_name,
          worker_data |->
              Marshal(TruncateEventData(r.worker_data,
                                        filter.TruncateLength))]
    ELSE [message_id |-> r.message_id,
          sent |-> TimeString(ScanTime(r.sent)),
          worker_name |-> r.worker_name,
          worker_message |->
              TruncateMessage(r.worker_message, filter.TruncateLength)]

(* --------------------------- error values ------------------------------- *)

\* the error of fmt.Errorf with no %w verb: a pointer to a fresh
\* errors.errorString, told from another by the place that made it
Errorf(text, at) == [type |-> "*errors.errorString", text |-> text, at |-> at]

\* &errorJournal{fmt.Errorf("no journal entries found")}
NoEntriesFound ==
    [type |-> "*messagejournal.errorJournal",
     err |-> Errorf("no journal entries found", "GetEntries"),
     at |-> "GetEntries"]

\* Error(): of an errorJournal, the text of the value it holds
Error(e) ==
    IF e.type = "*messagejournal.errorJournal" THEN e.err.text ELSE e.text

\* errorJournal.Is: the two errors have one dynamic type
Is(e, o) == e.type = o.type

\* errors.Is: err is target itself, or err has a method Is that accepts
\* target; neither type has a method Unwrap
ErrorsIs(err, target) ==
    \/ err = target
    \/ err.type = "*messagejournal.errorJournal" /\ Is(err, target)

\* cmp.Equal(x, y, cmpopts.EquateErrors())
EquateErrors(x, y) == ErrorsIs(x, y) \/ ErrorsIs(y, x)

\* wantError of the test: fmt.Errorf("no journal entries found")
wantError == Errorf("no journal entries found", "TestGetEntries")

GetEntriesSteps ==
    {"", "build", "prepare", "query", "scan", "unmarshal", "marshal",
     "iterate", "close"}

\* the steps that run once per row, and so need a row to fail on
RowSteps == {"scan", "unmarshal", "marshal"}

\* a GetEntries that returns, when a step fails on a row, the entries it
\* decoded before that row
GetEntriesPartial(j, filter, fail) ==
    /\ LET selected == buildDynamicGetEntriesQuery(tables, j, filter)
       IN  /\ fail \in RowSteps => selected # {}
           /\ IF fail \in RowSteps
              THEN \E rows \in OrderBySent(selected) :
                   \E k \in 1..Len(rows) :
                     ret' = Return("GetEntries", j, fail, "",
                                   [i \in 1..(k - 1) |->
                                       NewMessage(rows[i], filter)])
              ELSE IF fail # ""
              THEN ret' = Return("GetEntries", j, fail, "", <<>>)
              ELSE \E rows \in OrderBySent(selected) :
                     ret' = IF rows = <<>>
                            THEN Return("GetEntries", j,
                                        Error(NoEntriesFound), filter, <<>>)
                            ELSE Return("GetEntries", j, "", filter,
                                        [i \in DOMAIN rows |->
                                            NewMessage(rows[i], filter)])
    /\ UNCHANGED <<tables, journals, callers, listen>>

\* `fail` is a step that fails for a cause outside the call; Prepare fails
\* by itself on a text that sqlite rejects
GetEntries(j, filter, fail) ==
    /\ LET syntax == fail = "" /\ SyntaxError(filter)
           selected == IF syntax THEN {}
                       ELSE buildDynamicGetEntriesQuery(tables, j, filter)
       IN  /\ fail \in RowSteps => selected # {}
           /\ IF syntax
              THEN ret' = Return("GetEntries", j, "prepare: syntax error",
                                 filter, <<>>)
              ELSE IF fail # ""
              THEN ret' = Return("GetEntries", j, fail, "", <<>>)
              ELSE \E rows \in OrderBySent(selected) :
                     ret' = IF rows = <<>>
                            THEN Return("GetEntries", j,
                                        Error(NoEntriesFound), filter, <<>>)
                            ELSE IF \E i \in DOMAIN rows :
                                        UnmarshalFails(rows[i].worker_data)
                            THEN Return("GetEntries", j,
                                        "unmarshal: not a string", filter, <<>>)
                            ELSE Return("GetEntries", j, "", filter,
                                        [i \in DOMAIN rows |->
                                            NewMessage(rows[i], filter)])
    /\ UNCHANGED <<tables, journals, callers, listen>>

Next ==
    \/ \E t \in ClockReadings, fail \in NewSteps : New(t, fail)
    \/ \E j \in Range(journals), entry \in Messages, fail \in AddEntrySteps :
          AddEntry(j, entry, fail)
    \/ \E j \in Range(journals), filter \in Filters : GetEntries(j, filter, "")
    \/ \E j \in Range(journals), fail \in GetEntriesSteps :
          GetEntries(j, Unfiltered(TRUE), fail)

Spec == Init /\ [][Next]_vars

\* values a caller may pass that hold a quote character
QuotedValues == {"x' OR 'a'='a", "m1'"}

\* the filters that set one of MessageID and Worker, to a value of the
\* entries or to a value with a quote character
FiltersQuoted ==
    {[Unfiltered(persistent) EXCEPT ![field] = value] :
        persistent \in BOOLEAN, field \in {"MessageID", "Worker"},
        value \in MessageIDs \cup Workers \cup QuotedValues}

\* the one-table revision, called with the filters of FiltersQuoted
NextQuoted ==
    \/ \E t \in ClockReadings : New(t, "")
    \/ \E j \in Range(journals), entry \in Messages : AddEntry(j, entry, "")
    \/ \E j \in Range(journals), filter \in FiltersQuoted :
          GetEntries(j, filter, "")

SpecQuoted == Init /\ [][NextQuoted]_vars

(* --------------------- the two-table revisions ------------------------- *)

Rows(db, name) == IF name \in DOMAIN db THEN db[name] ELSE <<>>

\* CREATE TABLE IF NOT EXISTS name
CreateTable(db, name) ==
    IF name \in DOMAIN db THEN db ELSE WithTable(db, name, <<>>)

NewDropSteps ==
    {"", "open", "ping", "drop", "createRuntime", "createPersistent"}

\* New of src/unnamed/part_001: DROP TABLE IF EXISTS runtime, then CREATE
\* TABLE IF NOT EXISTS runtime and persistent
NewDrop(fail) ==
    /\ Len(journals) < MaxHandles
    /\ tables' =
         CASE fail \in {"open", "ping", "drop"} -> tables
           [] fail = "createRuntime" -> WithoutTable(tables, "runtime")
           [] fail = "createPersistent" ->
                WithTable(WithoutTable(tables, "runtime"), "runtime", <<>>)
           [] OTHER ->
                CreateTable(
                    WithTable(WithoutTable(tables, "runtime"), "runtime", <<>>),
                    "persistent")
    /\ journals' = IF fail = ""
                   THEN Append(journals, [database |-> "sqlite3"])
                   ELSE journals
    /\ ret' = Return("New", IF fail = "" THEN [database |-> "sqlite3"] ELSE Nil,
                     fail, "", <<>>)
    /\ UNCHANGED <<callers, listen>>

\* the migration of the revision with DELETE FROM runtime: both tables
migrateRuntimePersistent(db) ==
    CreateTable(CreateTable(db, "runtime"), "persistent")

NewDeleteSteps ==
    {"", "open", "migrate", "ping", "delete", "rowsAffected"}

\* New of internal/messagejournal/messagejournal.go: migrate, then
\* DELETE FROM runtime
NewDelete(fail) ==
    /\ Len(journals) < MaxHandles
    /\ tables' =
         CASE fail \in {"open", "migrate"} -> tables
           [] fail \in {"ping", "delete"} -> migrateRuntimePersistent(tables)
           [] OTHER ->
                WithTable(migrateRuntimePersistent(tables), "runtime", <<>>)
    /\ journals' = IF fail = ""
                   THEN Append(journals, [database |-> "sqlite3"])
                   ELSE journals
    /\ ret' = Return("New", IF fail = "" THEN [database |-> "sqlite3"] ELSE Nil,
                     fail, "", <<>>)
    /\ UNCHANGED <<callers, listen>>

AddEntryTwoTablesSteps ==
    {"", "prepareRuntime", "preparePersistent", "execRuntime",
     "execPersistent", "lastInsertIdRuntime", "lastInsertIdPersistent"}

\* AddEntry of the two-table revisions: one INSERT per table
AddEntryTwoTables(j, entry, fail) ==
    /\ Len(Rows(tables, "runtime")) < MaxEntries
    /\ Len(Rows(tables, "persistent")) < MaxEntries
    /\ "runtime" \notin DOMAIN tables => fail = "prepareRuntime"
    /\ "persistent" \notin DOMAIN tables =>
            fail \in {"prepareRuntime", "preparePersistent"}
    /\ tables' =
         CASE fail \in {"prepareRuntime", "preparePersistent", "execRuntime"}
                -> tables
           [] fail = "execPersistent" -> Insert(tables, "runtime", entry)
           [] OTHER ->
                Insert(Insert(tables, "runtime", entry), "persistent", entry)
    /\ ret' = Return("AddEntry", j, fail, entry, <<>>)
    /\ UNCHANGED <<journals, callers, listen>>

\* the table the filter's scope names
TableName(filter) == IF filter.Persistent THEN "persistent" ELSE "runtime"

\* the query of the two-table template: the scope picks the table
buildDynamicGetEntriesQueryTwoTables(db, filter) ==
    LET Table == Range(Rows(db, TableName(filter)))
    IN  Table
        \cap (IF filter.MessageID # ""
              THEN Where(Table, WhereClause("message_id", filter.MessageID))
              ELSE Table)
        \cap (IF filter.Worker # ""
              THEN Where(Table, WhereClause("worker_name", filter.Worker))
              ELSE Table)
        \cap (IF filter.Since # <<>>
              THEN {r \in Table : TextLE(filter.Since, r.sent)} ELSE Table)
        \cap (IF filter.Until # <<>>
              THEN {r \in Table : TextLE(r.sent, filter.Until)} ELSE Table)

GetEntriesTwoTablesSteps ==
    {"", "build", "prepare", "query", "scan", "iterate", "close"}

GetEntriesTwoTables(j, filter, fail) ==
    /\ TableName(filter) \notin DOMAIN tables => fail = "prepare"
    /\ LET syntax == fail = "" /\ SyntaxError(filter)
           selected == IF syntax THEN {}
                       ELSE buildDynamicGetEntriesQueryTwoTables(tables, filter)
       IN  /\ fail = "scan" => selected # {}
           /\ IF syntax
              THEN ret' = Return("GetEntries", j, "prepare: syntax error",
                                 filter, <<>>)
              ELSE IF fail # ""
              THEN ret' = Return("GetEntries", j, fail, "", <<>>)
              ELSE \E rows \in OrderBySent(selected) :
                     ret' = Return("GetEntries", j, "", filter,
                                   [i \in DOMAIN rows |->
                                       NewMessage(rows[i], filter)])
    /\ UNCHANGED <<tables, journals, callers, listen>>

CallsTwoTables ==
    \/ \E j \in Range(journals), entry \in Messages,
          fail \in AddEntryTwoTablesSteps : AddEntryTwoTables(j, entry, fail)
    \/ \E j \in Range(journals), filter \in Filters :
          GetEntriesTwoTables(j, filter, "")
    \/ \E j \in Range(journals), persistent \in BOOLEAN,
          fail \in GetEntriesTwoTablesSteps :
          GetEntriesTwoTables(j, Unfiltered(persistent), fail)

NextDrop ==
    \/ \E fail \in NewDropSteps : NewDrop(fail)
    \/ CallsTwoTables

SpecDrop == Init /\ [][NextDrop]_vars

NextDelete ==
    \/ \E fail \in NewDeleteSteps : NewDelete(fail)
    \/ CallsTwoTables

SpecDelete == Init /\ [][NextDelete]_vars

(* ------------- the two-table revision with bound arguments ------------- *)

\* the conditions the query text may hold, as sqlite reads them
Conditions ==
    {"message_id = $1", "worker_name = $2", "sent >= $3", "sent <= $4"}

\* the query text, as its tokens, and the arguments to bind: a condition
\* per field that is set, and "AND" after a condition when the field that
\* comes next in the text is set
buildDynamicGetEntriesQueryArgs(filter) ==
    [queryString |->
        <<"SELECT * FROM", TableName(filter)>>
        \o (IF \/ filter.MessageID # "" \/ filter.Worker # ""
               \/ filter.Since # <<>> \/ filter.Until # <<>>
            THEN <<"WHERE">> ELSE <<>>)
        \o (IF filter.MessageID # ""
            THEN <<"message_id = $1">>
                    \o (IF filter.Worker # "" THEN <<"AND">> ELSE <<>>)
            ELSE <<>>)
        \o (IF filter.Worker # ""
            THEN <<"worker_name = $2">>
                    \o (IF filter.Since # <<>> THEN <<"AND">> ELSE <<>>)
            ELSE <<>>)
        \o (IF filter.Since # <<>>
            THEN <<"sent >= $3">>
                    \o (IF filter.Until # <<>> THEN <<"AND">> ELSE <<>>)
            ELSE <<>>)
        \o (IF filter.Until # <<>> THEN <<"sent <= $4">> ELSE <<>>)
        \o <<"ORDER BY sent">>,
     queryArgs |->
        (IF filter.MessageID # "" THEN <<filter.MessageID>> ELSE <<>>)
        \o (IF filter.Worker # "" THEN <<filter.Worker>> ELSE <<>>)
        \o (IF filter.Since # <<>> THEN <<filter.Since>> ELSE <<>>)
        \o (IF filter.Until # <<>> THEN <<filter.Until>> ELSE <<>>)]

\* database.Prepare: sqlite rejects a text in which a condition follows a
\* condition with no AND between them, or that names a table that is missing
PrepareFails(db, queryString) ==
    \/ queryString[2] \notin DOMAIN db
    \/ \E i \in 1..(Len(queryString) - 1) :
          queryString[i] \in Conditions /\ queryString[i + 1] \in Conditions

\* one condition of the text on a row, its parameter bound to `arg`
Holds(condition, arg, r) ==
    CASE condition = "message_id = $1" -> r.message_id = arg
      [] condition = "worker_name = $2" -> r.worker_name = arg
      [] condition = "sent >= $3" -> TextLE(arg, r.sent)
      [] condition = "sent <= $4" -> TextLE(r.sent, arg)

\* preparedQuery.Query(queryArgs...): the parameters take the arguments in
\* the order in which they occur in the text
Query(db, queryString, queryArgs) ==
    LET conditions == SelectSeq(queryString, LAMBDA c : c \in Conditions)
    IN  {r \in Range(Rows(db, queryString[2])) :
            \A k \in DOMAIN conditions : Holds(conditions[k], queryArgs[k], r)}

GetEntriesArgsSteps == {"", "prepare", "query", "scan", "iterate", "close"}

\* GetEntries of the revision with bound arguments; `fail` is a step that
\* fails for a cause outside the call
GetEntriesArgs(j, filter, fail) ==
    /\ LET query == buildDynamicGetEntriesQueryArgs(filter)
           err == IF fail = "" /\ PrepareFails(tables, query.queryString)
                  THEN "prepare: syntax error" ELSE fail
           selected == IF err = "prepare: syntax error" THEN {}
                       ELSE Query(tables, query.queryString, query.queryArgs)
       IN  /\ fail = "scan" => selected # {}
           /\ IF err # ""
              THEN ret' = Return("GetEntries", j, err,
                                 IF fail = "" THEN filter ELSE "", <<>>)
              ELSE \E rows \in OrderBySent(selected) :
                     ret' = Return("GetEntries", j, "", filter,
                                   [i \in DOMAIN rows |->
                                       NewMessage(rows[i], filter)])
    /\ UNCHANGED <<tables, journals, callers, listen>>

\* the filters with at most two of the four fields set, and no truncation
FiltersTwoFields ==
    {f \in Filter :
        /\ f.TruncateLength = 0
        /\ Cardinality({k \in {"MessageID", "Worker"} : f[k] # ""}
                       \cup {k \in {"Since", "Until"} : f[k] # <<>>}) <= 2}

NextArgs ==
    \/ \E fail \in NewDropSteps : NewDrop(fail)
    \/ \E j \in Range(journals), entry \in Messages,
          fail \in AddEntryTwoTablesSteps : AddEntryTwoTables(j, entry, fail)
    \/ \E j \in Range(journals), filter \in FiltersTwoFields :
          GetEntriesArgs(j, filter, "")
    \/ \E j \in Range(journals), fail \in GetEntriesArgsSteps :
          GetEntriesArgs(j, Unfiltered(TRUE), fail)

SpecArgs == Init /\ [][NextArgs]_vars

(* ------------------ the two designs, side by side ---------------------- *)

\* New of both designs on one storage: the migration of the one-table
\* revision, then DROP TABLE runtime and CREATE TABLE of the two tables
NewBoth(t) ==
    /\ Len(journals) < MaxHandles
    /\ tables' =
         CreateTable(
             WithTable(WithoutTable(migrateMessageJournalDB(tables), "runtime"),
                       "runtime", <<>>),
             "persistent")
    /\ journals' = Append(journals, [initializedAt |-> t])
    /\ ret' = Return("New", [initializedAt |-> t], "", "", <<>>)
    /\ UNCHANGED <<callers, listen>>

\* AddEntry of both designs: the row goes to journal, runtime and persistent
AddEntryBoth(j, entry) ==
    /\ Len(tables["journal"]) < MaxEntries
    /\ tables' = Insert(Insert(Insert(tables, "journal", entry),
                               "runtime", entry),
                        "persistent", entry)
    /\ ret' = Return("AddEntry", j, "", entry, <<>>)
    /\ UNCHANGED <<journals, callers, listen>>

\* the calls run on both designs; GetEntries is the one of the one-table
\* design, the two-table query is evaluated on the same storage
NextBoth ==
    \/ \E t \in ClockReadings : NewBoth(t)
    \/ \E j \in Range(journals), entry \in Messages : AddEntryBoth(j, entry)
    \/ \E j \in Range(journals), filter \in Filters : GetEntries(j, filter, "")

SpecBoth == Init /\ [][NextBoth]_vars

(* ------------------------------ properties ----------------------------- *)

\* GetEntries ran its query to the end: it returned entries, or found none
Answered == ret.op = "GetEntries" /\ ret.err \in {"", "no journal entries found"}

\* the instant a returned entry shows in its "sent" field
SentOf(e) == CHOOSE t \in Times : TimeString(t) = e.sent

\* how often an entry occurs in a sequence of entries
Count(entries, e) == Cardinality({i \in DOMAIN entries : entries[i] = e})

\* the stored rows of the journal table, as GetEntries shows them
Stored ==
    [i \in DOMAIN tables["journal"] |->
        NewMessage(tables["journal"][i], Unfiltered(TRUE))]

\* C1: a durable query with no other constraint returns every stored entry
\* exactly once, and a query for a message id returns no entry that carries
\* another message id
C1_DurableQueryReturnsEachEntryOnce ==
    Answered =>
        /\ ret.arg = Unfiltered(TRUE) =>
              /\ Len(ret.entries) = Len(Stored)
              /\ \A e \in Range(Stored) :
                    Count(ret.entries, e) = Count(Stored, e)
        /\ ret.arg.MessageID # "" =>
              \A r \in Range(tables["journal"]) :
                 r.message_id # ret.arg.MessageID =>
                    NewMessage(r, ret.arg) \notin Range(ret.entries)

\* a durable unconstrained query answered with two entries
C1_Witness ==
    /\ Answered
    /\ ret.arg = Unfiltered(TRUE)
    /\ Len(ret.entries) = 2
    /\ ret.entries[1].message_id # ret.entries[2].message_id

Key(e) ==
    [message_id |-> e.message_id, sent |-> e.sent,
     worker_name |-> e.worker_name]

\* the entry of a WorkerMessage as GetEntries shows it
Shown(entry) ==
    [message_id |-> entry.MessageID,
     sent |-> TimeString(entry.Sent),
     worker_name |-> entry.WorkerName]

\* C3: an entry added through a handle is returned by the session query
\* with no constraint that follows on that handle, whatever its `sent` is
C3_SessionQueryReturnsEntriesAddedSinceOpen ==
    [][(/\ ret.op = "AddEntry" /\ ret.err = ""
        /\ ret'.op = "GetEntries"
        /\ ret'.err \in {"", "no journal entries found"}
        /\ ret'.j = ret.j
        /\ ret'.arg = Unfiltered(FALSE))
       => Shown(ret.arg) \in {Key(e) : e \in Range(ret'.entries)}]_vars

IsPrefix(a, b) == Len(a) <= Len(b) /\ \A i \in DOMAIN a : a[i] = b[i]

\* C4: the stored rows only grow: no step updates or deletes a row that a
\* table holds
C4_RowsOnlyGrow ==
    [][\A name \in DOMAIN tables :
          IsPrefix(tables[name], Rows(tables', name))]_vars

\* the entries a durable query with no constraint selects from a storage
DurableEntries(db) ==
    {NewMessage(r, Unfiltered(TRUE)) :
        r \in buildDynamicGetEntriesQuery(db, journals[1], Unfiltered(TRUE))}

\* C5: New on a storage that was opened before leaves the set of tables as
\* it was, and the durable query returns afterwards every entry it returned
\* before
C5_ReopenKeepsSchemaAndEntries ==
    [][(ret'.op = "New" /\ journals # <<>>)
       => /\ DOMAIN tables' = DOMAIN tables
          /\ DurableEntries(tables) \subseteq DurableEntries(tables')]_vars

\* a second handle opened on a journal that holds entries
C5_Witness ==
    /\ ret.op = "New" /\ ret.err = "" /\ Len(journals) = 2
    /\ tables["journal"] # <<>>

\* C6: the entries GetEntries returns ascend in `sent`
C6_EntriesAscendInSent ==
    Answered =>
        \A i, k \in DOMAIN ret.entries :
           i < k => SentOf(ret.entries[i]) <= SentOf(ret.entries[k])

\* two entries returned in the order of `sent`, inserted in the other order
C6_Witness ==
    /\ Answered
    /\ Len(ret.entries) = 2
    /\ SentOf(ret.entries[1]) < SentOf(ret.entries[2])
    /\ ScanTime(tables["journal"][1].sent) > ScanTime(tables["journal"][2].sent)

\* the selected rows in the order of `sent`, rows of equal `sent` by id
BySentThenId(selected) ==
    CHOOSE s \in OrderBySent(selected) :
        \A i, k \in DOMAIN s :
           (i < k /\ s[i].sent = s[k].sent) => s[i].id < s[k].id

\* C7: entries of equal `sent` are returned in the order of their ids, so
\* the stored rows determine the result
C7_TiesInInsertionOrder ==
    (ret.op = "GetEntries" /\ ret.err = "") =>
        LET rows == BySentThenId(
                buildDynamicGetEntriesQuery(tables, ret.j, ret.arg))
        IN  ret.entries = [i \in DOMAIN rows |-> NewMessage(rows[i], ret.arg)]

\* C8: an AddEntry that returns an error leaves every table as it was
C8_FailedAddEntryRecordsNothing ==
    [][(ret'.op = "AddEntry" /\ ret'.err # "") => tables' = tables]_vars

\* the rows of the storage, over all the tables of the revisions
TotalRows(db) ==
    Len(Rows(db, "journal")) + Len(Rows(db, "runtime"))
        + Len(Rows(db, "persistent"))

\* C9 as stated: a successful AddEntry adds one row to the storage and
\* leaves the other rows as they were
C9_AddEntryAddsOneRow ==
    [][(ret'.op = "AddEntry" /\ ret'.err = "")
       => /\ TotalRows(tables') = TotalRows(tables) + 1
          /\ \A name \in DOMAIN tables :
                IsPrefix(tables[name], tables'[name])]_vars

\* C9, amended: a successful AddEntry adds one row, which carries the
\* entry, to each table of the revision and leaves the other rows as they
\* were
C9_AddEntryAddsOneRowPerTable ==
    [][(ret'.op = "AddEntry" /\ ret'.err = "")
       => /\ DOMAIN tables' = DOMAIN tables
          /\ \A name \in DOMAIN tables :
                /\ Len(tables'[name]) = Len(tables[name]) + 1
                /\ IsPrefix(tables[name], tables'[name])
                /\ Key(NewMessage(tables'[name][Len(tables'[name])],
                                  Unfiltered(TRUE)))
                      = Shown(ret'.arg)]_vars

\* a successful AddEntry on tables that held a row each
C9_Witness ==
    /\ ret.op = "AddEntry" /\ ret.err = ""
    /\ Len(Rows(tables, "runtime")) = 2
    /\ Len(Rows(tables, "persistent")) = 2

\* the entries a session query with no constraint selects from the storage
\* of the two-table revisions
SessionEntries(db) ==
    {NewMessage(r, Unfiltered(FALSE)) :
        r \in buildDynamicGetEntriesQueryTwoTables(db, Unfiltered(FALSE))}

\* C10: New on a storage that a handle is using takes no entry out of what
\* a session query on that handle returns
C10_SecondOpenKeepsSessionEntries ==
    [][(ret'.op = "New" /\ journals # <<>>)
       => SessionEntries(tables) \subseteq SessionEntries(tables')]_vars

\* the entries the two-table query selects for a filter
TwoTablesEntries(db, filter) ==
    {Key(NewMessage(r, filter)) :
        r \in buildDynamicGetEntriesQueryTwoTables(db, filter)}

\* C11: on every storage that the calls of both designs have built,
\* GetEntries of the one-table design returns for a filter, session or
\* durable, the entries the query of the two-table design selects
C11_OneTableSameAsTwoTables ==
    Answered =>
        {Key(e) : e \in Range(ret.entries)} = TwoTablesEntries(tables, ret.arg)

\* the instant a TIMESTAMP of the user names
UserTime(text) == CHOOSE t \in Times : t % 2 = 0 /\ UserTimestamp(t) = text

\* the conditions of a filter on a stored row, taken on the values: the
\* ids equal, `sent` as an instant within the bounds and, for the session
\* scope, not before the open time of the handle
Satisfies(r, j, filter) ==
    /\ filter.MessageID # "" => r.message_id = filter.MessageID
    /\ filter.Worker # "" => r.worker_name = filter.Worker
    /\ filter.Since # <<>> => ScanTime(r.sent) >= UserTime(filter.Since)
    /\ filter.Until # <<>> => ScanTime(r.sent) <= UserTime(filter.Until)
    /\ ~filter.Persistent => ScanTime(r.sent) >= j.initializedAt

\* C12: GetEntries returns the stored entries that satisfy every condition
\* of the filter, each once, and nothing else
C12_ReturnsExactlyTheMatchingEntries ==
    Answered =>
        LET matching ==
                {i \in DOMAIN tables["journal"] :
                    Satisfies(tables["journal"][i], ret.j, ret.arg)}
        IN  /\ Len(ret.entries) = Cardinality(matching)
            /\ Range(ret.entries) =
                  {NewMessage(tables["journal"][i], ret.arg) : i \in matching}

\* the conditions of the fields that are set, as the query compares them
SatisfiesPresent(r, filter) ==
    /\ filter.MessageID # "" => r.message_id = filter.MessageID
    /\ filter.Worker # "" => r.worker_name = filter.Worker
    /\ filter.Since # <<>> => TextLE(filter.Since, r.sent)
    /\ filter.Until # <<>> => TextLE(r.sent, filter.Until)

\* C13: a field that is left unset adds no constraint: when no step fails
\* for an outside cause, GetEntries returns every row of the table of the
\* scope that meets the conditions of the fields that are set
C13_AbsentFieldAddsNoConstraint ==
    (ret.op = "GetEntries" /\ ret.err \in {"", "prepare: syntax error"}
        /\ TableName(ret.arg) \in DOMAIN tables)
    => \A r \in Range(tables[TableName(ret.arg)]) :
          SatisfiesPresent(r, ret.arg) =>
             NewMessage(r, ret.arg) \in Range(ret.entries)

\* C14: whatever text a filter gives for MessageID or Worker, GetEntries
\* runs its query, and every entry it returns carries that text in the
\* field
C14_FilterValuesAreTakenLiterally ==
    (ret.op = "GetEntries" /\ ret.err # "no journal entries found")
    => /\ ret.err = ""
       /\ ret.arg.MessageID # "" =>
             \A i \in DOMAIN ret.entries :
                ret.entries[i].message_id = ret.arg.MessageID
       /\ ret.arg.Worker # "" =>
             \A i \in DOMAIN ret.entries :
                ret.entries[i].worker_name = ret.arg.Worker


\* the payload of a stored row or of a returned entry: the event data of
\* the one-table revisions, the event message of the two-table revisions
Payload(x) ==
    IF "worker_data" \in DOMAIN x THEN x.worker_data ELSE x.worker_message

\* the stored rows a returned entry may stand for
RowsOf(name, e) ==
    {r \in Range(Rows(tables, name)) :
        Key(NewMessage(r, Unfiltered(TRUE))) = Key(e)}

\* C15: GetEntries with TruncateLength = 0 returns the message text of
\* every entry in full, as it is stored
C15_ZeroBoundMeansNoTruncation ==
    (ret.op = "GetEntries" /\ ret.err = "" /\ ret.arg.TruncateLength = 0)
    => \A i \in DOMAIN ret.entries :
          \E r \in RowsOf(TableName(ret.arg), ret.entries[i]) :
             Payload(ret.entries[i]) = Payload(r)

\* C15 on the one-table revisions
C15_ZeroBoundOneTable ==
    (ret.op = "GetEntries" /\ ret.err = "" /\ ret.arg.TruncateLength = 0)
    => \A i \in DOMAIN ret.entries :
          \E r \in RowsOf("journal", ret.entries[i]) :
             Payload(ret.entries[i]) = Payload(r)


(* ----------------- the one-table revision, truncating -------------------- *)

\* the entries the workers send with the payloads of EventDatas, all with
\* one id and one instant
DataMessages ==
    {m \in WorkerMessage :
        /\ m.MessageID = "m1" /\ m.Sent = 0
        /\ IF "message" \in DOMAIN m.EventData
           THEN m.EventData.message.string = m.EventMessage
           ELSE m.EventMessage = Hi}

\* the durable filters that set nothing but a truncation bound
FiltersTruncate ==
    {[Unfiltered(TRUE) EXCEPT !.TruncateLength = n] : n \in 0..MaxTruncate}

\* the handles are opened at one instant: the durable queries do not read
\* the open time
NextData ==
    \/ \E t \in ClockReadings \cap {0} : New(t, "")
    \/ \E j \in Range(journals), entry \in DataMessages :
          AddEntry(j, entry, "")
    \/ \E j \in Range(journals), filter \in FiltersTruncate :
          GetEntries(j, filter, "")

SpecData == Init /\ [][NextData]_vars

\* the characters of a UTF-8 text, each the bytes that encode it
RECURSIVE Characters(_)
Characters(text) ==
    IF text = <<>> THEN <<>>
    ELSE LET n == IF text[1] < 128 THEN 1
                  ELSE IF text[1] < 224 THEN 2 ELSE 3
         IN  <<SubSeq(text, 1, n)>>
                \o Characters(SubSeq(text, n + 1, Len(text)))

\* the text of a sequence of characters
RECURSIVE Text(_)
Text(characters) ==
    IF characters = <<>> THEN <<>>
    ELSE Head(characters) \o Text(Tail(characters))

\* the first n characters of a text
FirstCharacters(text, n) == Text(SubSeq(Characters(text), 1, n))

\* the keys of a payload other than "message", with their values
Siblings(eventData) ==
    [k \in DOMAIN eventData \ {"message"} |-> eventData[k]]

\* the rows GetEntries read for its answer, in an order it may read them
RowsRead ==
    OrderBySent(buildDynamicGetEntriesQuery(tables, ret.j, ret.arg))

\* a payload is the one a stored payload is to be shown as under a bound
\* above 0: the message text, if it has at least `bound` characters, cut
\* to the first `bound` characters and followed by "...", the other keys
\* as stored
TruncatedTo(shown, stored, bound) ==
    /\ DOMAIN shown = DOMAIN stored
    /\ Siblings(shown) = Siblings(stored)
    /\ ("message" \in DOMAIN stored
        /\ Len(Characters(stored.message.string)) >= bound)
       => shown.message.string
            = FirstCharacters(stored.message.string, bound) \o Marker

\* C16: with a bound above 0, a message text of at least that many
\* characters is returned as its first `bound` characters followed by
\* "...", and the other keys of the payload are returned as stored
C16_TruncatesToBoundCharacters ==
    (ret.op = "GetEntries" /\ ret.err = "" /\ ret.arg.TruncateLength > 0)
    => \E rows \in RowsRead :
          \A i \in DOMAIN ret.entries :
             TruncatedTo(ret.entries[i].worker_data, rows[i].worker_data,
                         ret.arg.TruncateLength)

C18_NumberSiblingSurvivesTruncation ==
    (/\ ret.op = "GetEntries"
     /\ ret.err \in {"", "unmarshal: not a string"}
     /\ ret.arg.TruncateLength = 5
     /\ Len(tables["journal"]) = 1
     /\ tables["journal"][1].worker_data = HelloWorldCode7)
    => /\ ret.err = ""
       /\ Len(ret.entries) = 1
       /\ ret.entries[1].worker_data
            = [message |-> String(SubSeq(HelloWorld, 1, 5) \o Marker),
               code |-> HelloWorldCode7.code]

\* the errors of GetEntries that report a failure to execute the query or
\* to decode a row
Failures ==
    ((GetEntriesSteps \cup GetEntriesTwoTablesSteps \cup GetEntriesArgsSteps)
        \ {""})
        \cup {"prepare: syntax error", "unmarshal: not a string"}

\* C19: GetEntries returns an error only when the query failed to execute
\* or a row failed to decode; when no row matches it returns no error and
\* an empty sequence
C19_NoMatchIsNotAnError ==
    (ret.op = "GetEntries" /\ ret.err \notin Failures)
    => /\ ret.err = ""
       /\ ret.entries = <<>> <=>
             buildDynamicGetEntriesQuery(tables, ret.j, ret.arg) = {}

\* C19 on the two-table revisions
C19_NoMatchIsNotAnErrorTwoTables ==
    (ret.op = "GetEntries" /\ ret.err \notin Failures)
    => /\ ret.err = ""
       /\ ret.entries = <<>> <=>
             buildDynamicGetEntriesQueryTwoTables(tables, ret.arg) = {}

\* C20: GetEntries of the revision with errorJournal returns the error "no
\* journal entries found" exactly when no row matches the filter, and the
\* comparison of the test takes that error and wantError for equal
C20_NoEntriesErrorEqualsWantError ==
    (ret.op = "GetEntries" /\ ret.err \notin Failures)
    => /\ ret.err = Error(NoEntriesFound) <=>
             buildDynamicGetEntriesQuery(tables, ret.j, ret.arg) = {}
       /\ ret.err = Error(NoEntriesFound) =>
             /\ Error(wantError) = ret.err
             /\ EquateErrors(NoEntriesFound, wantError)

\* the first half of C20 alone
C20_NoEntriesErrorIffNoRows ==
    (ret.op = "GetEntries" /\ ret.err \notin Failures)
    => (ret.err = Error(NoEntriesFound) <=>
           buildDynamicGetEntriesQuery(tables, ret.j, ret.arg) = {})

\* C21: the time bounds are inclusive: a stored entry sent at the instant
\* of the lower bound, or at the instant of the upper bound, that meets
\* the conditions of the filter is returned
C21_TimeBoundsAreInclusive ==
    Answered =>
        \A r \in Range(tables["journal"]) :
           (/\ Satisfies(r, ret.j, ret.arg)
            /\ \/ /\ ret.arg.Since # <<>>
                  /\ ScanTime(r.sent) = UserTime(ret.arg.Since)
               \/ /\ ret.arg.Until # <<>>
                  /\ ScanTime(r.sent) = UserTime(ret.arg.Until))
           => NewMessage(r, ret.arg) \in Range(ret.entries)

\* the lower bound alone is inclusive
C21_LowerBoundIsInclusive ==
    Answered =>
        \A r \in Range(tables["journal"]) :
           (/\ Satisfies(r, ret.j, ret.arg)
            /\ ret.arg.Until = <<>>
            /\ ret.arg.Since # <<>>
            /\ ScanTime(r.sent) = UserTime(ret.arg.Since))
           => NewMessage(r, ret.arg) \in Range(ret.entries)

\* C22: a GetEntries that returns an error returns no entry, whatever the
\* step that failed and however many rows it had decoded before
C22_NoPartialResults ==
    (ret.op = "GetEntries" /\ ret.err # "") => ret.entries = <<>>

\* a GetEntries on a journal of two rows that failed while it decoded a row
C22_Witness ==
    /\ ret.op = "GetEntries"
    /\ ret.err \in RowSteps
    /\ ret.entries = <<>>
    /\ Len(tables["journal"]) = 2

\* C23: AddEntry and GetEntries have closed, when they return, the
\* statement they prepared and the cursor they opened, on every path
C23_CallsReleaseWhatTheyOpen ==
    ret.op \in {"AddEntry", "GetEntries"} => ret.open = {}

\* the cursor alone: GetEntries has closed it on every return
C23_CursorIsReleased ==
    ret.op = "GetEntries" => "cursor" \notin ret.open

\* the cursor on the paths that reach the end of the loop over the rows
C23_CursorIsReleasedAfterTheLoop ==
    (ret.op = "GetEntries" /\ ret.err \notin RowSteps) => "cursor" \notin ret.open

(* ------------- the one-table revision, callers running at once ----------- *)

\* the ids of the rows that the AddEntry calls which returned nil added
Added == UNION {callers[c].added : c \in Callers}

\* the calls that have not run their INSERT yet
Inserting == {c \in Callers : callers[c].pc = "AddEntry:exec"}

\* a caller enters AddEntry: Prepare and json.Marshal touch no row
AddEntryCall(c, j, entry) ==
    /\ callers[c].pc = "idle"
    /\ Len(tables["journal"]) + Cardinality(Inserting) < MaxEntries
    /\ callers' = [callers EXCEPT
                     ![c] = [@ EXCEPT !.pc = "AddEntry:exec", !.j = j,
                                      !.arg = entry]]
    /\ UNCHANGED <<tables, journals, ret, listen>>

\* an Exec on a store that does not serialize its writers: of two INSERTs
\* that run at once, the first to finish is overwritten by the second
AddEntryExecAtOnce(c, locked) ==
    /\ callers[c].pc = "AddEntry:exec"
    /\ locked => \E d \in Callers \ {c} : callers[d].pc = "GetEntries:rows"
    /\ tables' = IF locked \/ Inserting # {c} THEN tables
                 ELSE Insert(tables, "journal", callers[c].arg)
    /\ callers' = [callers EXCEPT
                     ![c] = [@ EXCEPT
                               !.pc = "AddEntry:return",
                               !.err = IF locked THEN "exec" ELSE "",
                               !.id = IF locked THEN 0
                                      ELSE LastInsertId(tables["journal"])]]
    /\ UNCHANGED <<journals, ret, listen>>

\* insertAction.Exec: sqlite runs the INSERT as one transaction, or refuses
\* it ("database is locked") while the cursor of another caller is open
AddEntryExec(c, locked) ==
    /\ callers[c].pc = "AddEntry:exec"
    /\ locked => \E d \in Callers \ {c} : callers[d].pc = "GetEntries:rows"
    /\ tables' = IF locked THEN tables
                 ELSE Insert(tables, "journal", callers[c].arg)
    /\ callers' = [callers EXCEPT
                     ![c] = [@ EXCEPT
                               !.pc = "AddEntry:return",
                               !.err = IF locked THEN "exec" ELSE "",
                               !.id = IF locked THEN 0
                                      ELSE LastInsertId(tables["journal"])]]
    /\ UNCHANGED <<journals, ret, listen>>

\* LastInsertId reads the result of the caller's own Exec; AddEntry returns
AddEntryReturn(c) ==
    /\ callers[c].pc = "AddEntry:return"
    /\ ret' = Return("AddEntry", callers[c].j, callers[c].err,
                     callers[c].arg, <<>>)
    /\ callers' = [callers EXCEPT
                     ![c] = Idle(IF callers[c].err = ""
                                 THEN @.added \cup {callers[c].id}
                                 ELSE @.added,
                                 @.want, @.read)]
    /\ UNCHANGED <<tables, journals, listen>>

\* a caller enters GetEntries: the query is built and prepared
GetEntriesCall(c, j, filter) ==
    /\ callers[c].pc = "idle"
    /\ callers' = [callers EXCEPT
                     ![c] = [@ EXCEPT !.pc = "GetEntries:query", !.j = j,
                                      !.arg = filter, !.want = Added,
                                      !.read = <<>>]]
    /\ UNCHANGED <<tables, journals, ret, listen>>

\* preparedQuery.Query and the first rows.Next: the cursor reads the rows
\* that are committed at this point, whatever is inserted while it is open
GetEntriesQuery(c) ==
    /\ callers[c].pc = "GetEntries:query"
    /\ \E rows \in OrderBySent(buildDynamicGetEntriesQuery(
                       tables, callers[c].j, callers[c].arg)) :
          callers' = [callers EXCEPT
                        ![c] = [@ EXCEPT !.pc = "GetEntries:rows",
                                         !.rows = rows]]
    /\ UNCHANGED <<tables, journals, ret, listen>>

\* the loop over the rows, rows.Close, and the return of GetEntries
GetEntriesReturn(c) ==
    /\ callers[c].pc = "GetEntries:rows"
    /\ LET rows == callers[c].rows
           filter == callers[c].arg
       IN  /\ ret' = IF rows = <<>>
                     THEN Return("GetEntries", callers[c].j,
                                 Error(NoEntriesFound), filter, <<>>)
                     ELSE Return("GetEntries", callers[c].j, "", filter,
                                 [i \in DOMAIN rows |->
                                     NewMessage(rows[i], filter)])
           /\ callers' = [callers EXCEPT
                            ![c] = Idle(@.added, @.want,
                                        [i \in DOMAIN rows |-> rows[i].id])]
    /\ UNCHANGED <<tables, journals, listen>>

\* one handle, opened before the callers start; the queries are durable
\* and unconstrained
NextCallers ==
    \/ journals = <<>> /\ New(0, "")
    \/ \E c \in Callers, j \in Range(journals), entry \in Messages :
          AddEntryCall(c, j, entry)
    \/ \E c \in Callers, locked \in BOOLEAN : AddEntryExec(c, locked)
    \/ \E c \in Callers : AddEntryReturn(c)
    \/ \E c \in Callers, j \in Range(journals) :
          GetEntriesCall(c, j, Unfiltered(TRUE))
    \/ \E c \in Callers : GetEntriesQuery(c)
    \/ \E c \in Callers : GetEntriesReturn(c)

SpecCallers == Init /\ [][NextCallers]_vars

\* C24: with the calls of several callers interleaved, every AddEntry that
\* returned nil has added its row, once, and a durable query with no
\* constraint has read, once each, the rows of all the AddEntry calls that
\* had returned nil when it was called
C24_NoWriteIsLost ==
    /\ \A id \in Added :
          Cardinality({i \in DOMAIN tables["journal"] :
                          tables["journal"][i].id = id}) = 1
    /\ \A c, d \in Callers :
          c # d => callers[c].added \cap callers[d].added = {}
    /\ \A c \in Callers :
          callers[c].pc = "idle"
          => \A id \in callers[c].want :
                Cardinality({i \in DOMAIN callers[c].read :
                                callers[c].read[i] = id}) = 1

\* both callers have added a row, and a query called after both returned
\* has read the two rows
C24_Witness ==
    /\ \A c \in Callers : callers[c].pc = "idle" /\ callers[c].added # {}
    /\ ret.op = "GetEntries" /\ ret.err = ""
    /\ \E c \in Callers :
          /\ Cardinality(callers[c].want) = 2
          /\ Len(callers[c].read) = 2

\* C25: ids only grow and are not assigned twice: in every table, the id
\* the store assigns to the next row is, after every step, at least the
\* one it would have assigned before the step, and a row that a step adds
\* has an id above the ids of the rows the table held
C25_IdsAreNeverReused ==
    [][\A name \in DOMAIN tables :
          /\ LastInsertId(Rows(tables', name)) >= LastInsertId(tables[name])
          /\ \A r \in Range(Rows(tables', name)) \ Range(tables[name]) :
                \A s \in Range(tables[name]) : r.id > s.id]_vars

\* C26: a New on a fresh storage location that no outside failure stops
\* returns a handle, and the journal then holds no entry: the durable
\* query with no constraint selects no row
C26_FreshJournalIsEmpty ==
    [][(tables = <<>> /\ ret'.op = "New" /\ ret'.err \notin NewSteps \ {""})
       => /\ ret'.err = ""
          /\ ret'.j # Nil
          /\ journals' = Append(journals, ret'.j)
          /\ "journal" \in DOMAIN tables'
          /\ buildDynamicGetEntriesQuery(tables', ret'.j, Unfiltered(TRUE))
                = {}]_vars

\* the first New has returned a handle on a storage that held nothing
C26_Witness ==
    /\ ret.op = "New" /\ ret.err = ""
    /\ journals = <<ret.j>>
    /\ tables = [journal |-> <<>>]

(* ---------------- the one-table revision, schema versions ---------------- *)

\* the version of the one migration, migrations/000001_messagejournal.up.sql
LatestVersion == 1

\* the row of the table schema_migrations that migrate keeps in the store;
\* a store without the table is at no version
SchemaVersion(db) ==
    IF "schema_migrations" \in DOMAIN db
    THEN db["schema_migrations"][1] ELSE [version |-> 0, dirty |-> FALSE]

\* migration.Up(): refuses a store left dirty by a failed migration, has
\* nothing to do on a store at the latest version, and else records the
\* version as dirty, runs the migration and, if it ran, clears the mark
Up(db, fails) ==
    LET at == SchemaVersion(db)
    IN  IF at.dirty THEN [db |-> db, err |-> "dirty"]
        ELSE IF at.version = LatestVersion
        THEN [db |-> db, err |-> "no change"]
        ELSE IF fails
        THEN [db |-> WithTable(db, "schema_migrations",
                        <<[version |-> LatestVersion, dirty |-> TRUE]>>),
              err |-> "migrate"]
        ELSE [db |-> WithTable(migrateMessageJournalDB(db),
                        "schema_migrations",
                        <<[version |-> LatestVersion, dirty |-> FALSE]>>),
              err |-> ""]

\* a migrateMessageJournalDB that returns every error of Up
migrateEveryError(db, fails) == Up(db, fails)

\* migrateMessageJournalDB: the error of Up, unless it is ErrNoChange
migrateMessageJournalDBUp(db, fails) ==
    LET up == Up(db, fails)
    IN  [db |-> up.db, err |-> IF up.err = "no change" THEN "" ELSE up.err]

\* New, with the schema version that the migration keeps
NewUp(t, fail) ==
    /\ Len(journals) < MaxHandles
    /\ LET migrated == migrateMessageJournalDBUp(tables, fail = "migrate")
           err == IF fail = "open" THEN "open"
                  ELSE IF migrated.err # "" THEN migrated.err
                  ELSE fail
       IN  /\ fail = "migrate" => migrated.err # ""
           /\ tables' = IF fail = "open" THEN tables ELSE migrated.db
           /\ journals' = IF err = ""
                          THEN Append(journals, [initializedAt |-> t])
                          ELSE journals
           /\ ret' = Return("New",
                            IF err = "" THEN [initializedAt |-> t] ELSE Nil,
                            err, "", <<>>)
    /\ UNCHANGED <<callers, listen>>

NextUp ==
    \/ \E t \in ClockReadings, fail \in NewSteps : NewUp(t, fail)
    \/ \E j \in Range(journals), entry \in Messages : AddEntry(j, entry, "")
    \/ \E j \in Range(journals), persistent \in BOOLEAN :
          GetEntries(j, Unfiltered(persistent), "")

SpecUp == Init /\ [][NextUp]_vars

\* C27: over the New calls on one storage the schema version never
\* decreases and the migration is applied once: a New on a store at the
\* latest version changes nothing in the store and returns a handle unless
\* an outside failure stops it, and a New whose migration fails returns an
\* error and no handle
C27_MigrationsAreAppliedOnce ==
    [][ret'.op = "New" =>
          /\ SchemaVersion(tables').version >= SchemaVersion(tables).version
          /\ "journal" \in DOMAIN tables =>
                /\ "journal" \in DOMAIN tables'
                /\ tables'["journal"] = tables["journal"]
          /\ SchemaVersion(tables) = [version |-> LatestVersion,
                                      dirty |-> FALSE] =>
                /\ tables' = tables
                /\ ret'.err \in {"", "open", "ping"}
          /\ ret'.err \in {"migrate", "dirty"} =>
                /\ ret'.j = Nil
                /\ journals' = journals]_vars

\* a second New has returned a handle on a store at the latest version that
\* holds an entry
C27_Witness ==
    /\ ret.op = "New" /\ ret.err = ""
    /\ Len(journals) = 2
    /\ SchemaVersion(tables) = [version |-> LatestVersion, dirty |-> FALSE]
    /\ tables["journal"] # <<>>

(* ----------------------------- yggctl listen ---------------------------- *)

\* the signals one run of listen receives
MaxSignals == 2

\* the workers that emit events on the bus
Emitters == {"w1", "w2"}

WorkerEvent == "com.redhat.Yggdrasil1.WorkerEvent"

\* the signals the bus can deliver: WorkerEvent signals of each worker, with
\* and without the optional message, one whose first value is no string,
\* and a signal of another name
Signals ==
    {[Name |-> WorkerEvent,
      Body |-> <<String(w), Number(1), String("m1"), String("")>> \o message] :
        w \in Emitters, message \in {<<>>, <<String("done")>>}}
    \cup {[Name |-> WorkerEvent,
           Body |-> <<Number(0), Number(1), String("m1"), String("")>>],
          [Name |-> "org.freedesktop.DBus.NameAcquired",
           Body |-> <<String(":1.7")>>]}

ListenSteps == {"", "connect", "match"}

\* listenAction up to its loop: connects to the bus and, with
\* conn.AddMatchSignal() and no match option, asks for every signal
listenAction(worker, fail) ==
    /\ listen.pc = "none"
    /\ listen' = [listen EXCEPT !.pc = IF fail = "" THEN "listening"
                                       ELSE "exited",
                                !.worker = worker]
    /\ UNCHANGED <<tables, journals, ret, callers>>

\* a worker emits a signal and the connection passes it to the channel
Emit(s) ==
    /\ listen.pc = "listening"
    /\ Len(listen.signals) + Len(listen.printed) < MaxSignals
    /\ listen' = [listen EXCEPT !.signals = Append(@, s)]
    /\ UNCHANGED <<tables, journals, ret, callers>>

\* the line log.Printf writes for a WorkerEvent signal
Line(s) ==
    [worker |-> s.Body[1].string,
     messageID |-> s.Body[3].string,
     responseTo |-> s.Body[4].string,
     event |-> s.Body[2].number,
     message |-> IF Len(s.Body) > 4 THEN s.Body[5].string ELSE ""]

\* one turn of the loop of listenAction over the channel
Receive ==
    /\ listen.pc = "listening"
    /\ listen.signals # <<>>
    /\ LET s == Head(listen.signals)
       IN  listen' =
             IF s.Name # WorkerEvent
             THEN [listen EXCEPT !.signals = Tail(@)]
             ELSE IF ~IsString(s.Body[1])
             THEN [listen EXCEPT !.signals = Tail(@), !.pc = "exited"]
             ELSE [listen EXCEPT !.signals = Tail(@),
                                 !.printed = Append(@, Line(s))]
    /\ UNCHANGED <<tables, journals, ret, callers>>

NextListen ==
    \/ \E worker \in Emitters, fail \in ListenSteps : listenAction(worker, fail)
    \/ \E s \in Signals : Emit(s)
    \/ Receive

SpecListen == Init /\ [][NextListen]_vars

\* C28: listen prints only the events of the worker given with --worker:
\* every printed line carries that worker's name
C28_ListenPrintsOnlyTheGivenWorker ==
    \A i \in 1..Len(listen.printed) : listen.printed[i].worker = listen.worker

\* what does hold: every printed line is that of a WorkerEvent signal of
\* some worker
C28_ListenPrintsWorkerEvents ==
    \A i \in 1..Len(listen.printed) : listen.printed[i].worker \in Emitters


(* -------------------- the text of the built query ----------------------- *)

\* the value of the filter's field that a condition of the text constrains
FieldOf(condition, filter) ==
    CASE condition = "message_id = $1" -> filter.MessageID
      [] condition = "worker_name = $2" -> filter.Worker
      [] condition = "sent >= $3" -> filter.Since
      [] condition = "sent <= $4" -> filter.Until

\* the conditions of the fields that a filter sets, in the order of the text
Present(filter) ==
    (IF filter.MessageID # "" THEN <<"message_id = $1">> ELSE <<>>)
    \o (IF filter.Worker # "" THEN <<"worker_name = $2">> ELSE <<>>)
    \o (IF filter.Since # <<>> THEN <<"sent >= $3">> ELSE <<>>)
    \o (IF filter.Until # <<>> THEN <<"sent <= $4">> ELSE <<>>)

\* C29: for every combination of set and unset MessageID, Worker, From and
\* To, the query built with bound arguments is well formed: WHERE is there
\* exactly when a field is set, the conditions of the set fields are there
\* with AND between each two, and each argument is the value of the field
\* of the condition it is bound to
C29_BuiltQueryIsWellFormed ==
    (ret.op = "GetEntries" /\ ret.err \in {"", "prepare: syntax error"}) =>
        LET query == buildDynamicGetEntriesQueryArgs(ret.arg)
            text == query.queryString
            present == Present(ret.arg)
            separated == [i \in 1..(2 * Len(present) - 1) |->
                            IF i % 2 = 1 THEN present[(i + 1) \div 2]
                            ELSE "AND"]
        IN  /\ text = <<"SELECT * FROM", TableName(ret.arg)>>
                      \o (IF present # <<>> THEN <<"WHERE">> ELSE <<>>)
                      \o (IF present # <<>> THEN separated ELSE <<>>)
                      \o <<"ORDER BY sent">>
            /\ Len(query.queryArgs) = Len(present)
            /\ \A k \in DOMAIN present :
                  query.queryArgs[k] = FieldOf(present[k], ret.arg)

\* what does hold of the text: WHERE is there exactly when a field is set,
\* the conditions of the set fields are there in order, and each argument is
\* the value of the field of the condition it is bound to
C29_ConditionsAndArgumentsMatch ==
    (ret.op = "GetEntries" /\ ret.err \in {"", "prepare: syntax error"}) =>
        LET query == buildDynamicGetEntriesQueryArgs(ret.arg)
            present == Present(ret.arg)
        IN  /\ ("WHERE" \in Range(query.queryString)) <=> present # <<>>
            /\ SelectSeq(query.queryString, LAMBDA c : c \in Conditions)
                  = present
            /\ Len(query.queryArgs) = Len(present)
            /\ \A k \in DOMAIN present :
                  query.queryArgs[k] = FieldOf(present[k], ret.arg)


\* a row without the id its table gave it
Content(r) == [f \in DOMAIN r \ {"id"} |-> r[f]]

\* C30: in the two-table revisions every entry of the runtime table is also
\* in the persistent table, after every New and every AddEntry, those that
\* return an error included
C30_RuntimeIsSubsetOfPersistent ==
    {Content(r) : r \in Range(Rows(tables, "runtime"))}
        \subseteq {Content(r) : r \in Range(Rows(tables, "persistent"))}

\* what does hold: after an AddEntry that returns no error the entry is in
\* both tables
C30_AddedEntryIsInBothTables ==
    (ret.op = "AddEntry" /\ ret.err = "") =>
        \E r \in Range(Rows(tables, "runtime")),
           p \in Range(Rows(tables, "persistent")) :
              Content(r) = Content(p) /\ r.message_id = ret.arg.MessageID

=============================================================================
